---- MODULE Spec2Model ----
(***************************************************************************)
(* A model of src/src/pubmed_search/server.py: the call_tool handler of    *)
(* the PubMed tool server and PubMedSearcher.search, the two-step search   *)
(* (esearch, then efetch) it dispatches to.                                *)
(*                                                                         *)
(* Text is a sequence of one-character strings, so that formatting,        *)
(* joining, splitting and parsing are computed and not assumed.            *)
(***************************************************************************)
EXTENDS Integers, Sequences, FiniteSets, TLC

VARIABLES inv, openHandles, served

vars == <<inv, openHandles, served>>

(***************************************************************************)
(* Bounds of the model.                                                    *)
(***************************************************************************)
\* Requests the sequential server handles one after the other.
MaxRequests == 3
\* Invocations the host keeps in flight at once in ConcSpec.
MaxInFlight == 2

(***************************************************************************)
(* Program constants.                                                      *)
(***************************************************************************)
\* arguments.get("max_results", 15)
DefaultMaxResults == 15
\* min(..., 15)
MaxResultsCeiling == 15

Min(a, b) == IF a <= b THEN a ELSE b
Max(a, b) == IF a >= b THEN a ELSE b

(***************************************************************************)
(* Text helpers.                                                           *)
(***************************************************************************)
\* A character is a one-character string.  A character that a TLA+ string
\* cannot hold (NUL, the backquote, every character above U+00FF) is written
\* as its code point: "u0000", "u0060", "u0663", "U0001d7ce".
Digits == <<"0", "1", "2", "3", "4", "5", "6", "7", "8", "9">>

\* The decimal digits outside ASCII (Unicode category Nd), which int() reads
\* as it reads 0..9: one tuple per script, in the order of the values.
UnicodeDigits ==
    <<<<"u0660", "u0661", "u0662", "u0663", "u0664", "u0665", "u0666",
        "u0667", "u0668", "u0669">>,
      <<"u06f0", "u06f1", "u06f2", "u06f3", "u06f4", "u06f5", "u06f6",
        "u06f7", "u06f8", "u06f9">>,
      <<"u07c0", "u07c1", "u07c2", "u07c3", "u07c4", "u07c5", "u07c6",
        "u07c7", "u07c8", "u07c9">>,
      <<"u0966", "u0967", "u0968", "u0969", "u096a", "u096b", "u096c",
        "u096d", "u096e", "u096f">>,
      <<"u09e6", "u09e7", "u09e8", "u09e9", "u09ea", "u09eb", "u09ec",
        "u09ed", "u09ee", "u09ef">>,
      <<"u0a66", "u0a67", "u0a68", "u0a69", "u0a6a", "u0a6b", "u0a6c",
        "u0a6d", "u0a6e", "u0a6f">>,
      <<"u0ae6", "u0ae7", "u0ae8", "u0ae9", "u0aea", "u0aeb", "u0aec",
        "u0aed", "u0aee", "u0aef">>,
      <<"u0b66", "u0b67", "u0b68", "u0b69", "u0b6a", "u0b6b", "u0b6c",
        "u0b6d", "u0b6e", "u0b6f">>,
      <<"u0be6", "u0be7", "u0be8", "u0be9", "u0bea", "u0beb", "u0bec",
        "u0bed", "u0bee", "u0bef">>,
      <<"u0c66", "u0c67", "u0c68", "u0c69", "u0c6a", "u0c6b", "u0c6c",
        "u0c6d", "u0c6e", "u0c6f">>,
      <<"u0ce6", "u0ce7", "u0ce8", "u0ce9", "u0cea", "u0ceb", "u0cec",
        "u0ced", "u0cee", "u0cef">>,
      <<"u0d66", "u0d67", "u0d68", "u0d69", "u0d6a", "u0d6b", "u0d6c",
        "u0d6d", "u0d6e", "u0d6f">>,
      <<"u0de6", "u0de7", "u0de8", "u0de9", "u0dea", "u0deb", "u0dec",
        "u0ded", "u0dee", "u0def">>,
      <<"u0e50", "u0e51", "u0e52", "u0e53", "u0e54", "u0e55", "u0e56",
        "u0e57", "u0e58", "u0e59">>,
      <<"u0ed0", "u0ed1", "u0ed2", "u0ed3", "u0ed4", "u0ed5", "u0ed6",
        "u0ed7", "u0ed8", "u0ed9">>,
      <<"u0f20", "u0f21", "u0f22", "u0f23", "u0f24", "u0f25", "u0f26",
        "u0f27", "u0f28", "u0f29">>,
      <<"u1040", "u1041", "u1042", "u1043", "u1044", "u1045", "u1046",
        "u1047", "u1048", "u1049">>,
      <<"u1090", "u1091", "u1092", "u1093", "u1094", "u1095", "u1096",
        "u1097", "u1098", "u1099">>,
      <<"u17e0", "u17e1", "u17e2", "u17e3", "u17e4", "u17e5", "u17e6",
        "u17e7", "u17e8", "u17e9">>,
      <<"u1810", "u1811", "u1812", "u1813", "u1814", "u1815", "u1816",
        "u1817", "u1818", "u1819">>,
      <<"u1946", "u1947", "u1948", "u1949", "u194a", "u194b", "u194c",
        "u194d", "u194e", "u194f">>,
      <<"u19d0", "u19d1", "u19d2", "u19d3", "u19d4", "u19d5", "u19d6",
        "u19d7", "u19d8", "u19d9">>,
      <<"u1a80", "u1a81", "u1a82", "u1a83", "u1a84", "u1a85", "u1a86",
        "u1a87", "u1a88", "u1a89">>,
      <<"u1a90", "u1a91", "u1a92", "u1a93", "u1a94", "u1a95", "u1a96",
        "u1a97", "u1a98", "u1a99">>,
      <<"u1b50", "u1b51", "u1b52", "u1b53", "u1b54", "u1b55", "u1b56",
        "u1b57", "u1b58", "u1b59">>,
      <<"u1bb0", "u1bb1", "u1bb2", "u1bb3", "u1bb4", "u1bb5", "u1bb6",
        "u1bb7", "u1bb8", "u1bb9">>,
      <<"u1c40", "u1c41", "u1c42", "u1c43", "u1c44", "u1c45", "u1c46",
        "u1c47", "u1c48", "u1c49">>,
      <<"u1c50", "u1c51", "u1c52", "u1c53", "u1c54", "u1c55", "u1c56",
        "u1c57", "u1c58", "u1c59">>,
      <<"ua620", "ua621", "ua622", "ua623", "ua624", "ua625", "ua626",
        "ua627", "ua628", "ua629">>,
      <<"ua8d0", "ua8d1", "ua8d2", "ua8d3", "ua8d4", "ua8d5", "ua8d6",
        "ua8d7", "ua8d8", "ua8d9">>,
      <<"ua900", "ua901", "ua902", "ua903", "ua904", "ua905", "ua906",
        "ua907", "ua908", "ua909">>,
      <<"ua9d0", "ua9d1", "ua9d2", "ua9d3", "ua9d4", "ua9d5", "ua9d6",
        "ua9d7", "ua9d8", "ua9d9">>,
      <<"ua9f0", "ua9f1", "ua9f2", "ua9f3", "ua9f4", "ua9f5", "ua9f6",
        "ua9f7", "ua9f8", "ua9f9">>,
      <<"uaa50", "uaa51", "uaa52", "uaa53", "uaa54", "uaa55", "uaa56",
        "uaa57", "uaa58", "uaa59">>,
      <<"uabf0", "uabf1", "uabf2", "uabf3", "uabf4", "uabf5", "uabf6",
        "uabf7", "uabf8", "uabf9">>,
      <<"uff10", "uff11", "uff12", "uff13", "uff14", "uff15", "uff16",
        "uff17", "uff18", "uff19">>,
      <<"U000104a0", "U000104a1", "U000104a2", "U000104a3", "U000104a4",
        "U000104a5", "U000104a6", "U000104a7", "U000104a8", "U000104a9">>,
      <<"U00010d30", "U00010d31", "U00010d32", "U00010d33", "U00010d34",
        "U00010d35", "U00010d36", "U00010d37", "U00010d38", "U00010d39">>,
      <<"U00011066", "U00011067", "U00011068", "U00011069", "U0001106a",
        "U0001106b", "U0001106c", "U0001106d", "U0001106e", "U0001106f">>,
      <<"U000110f0", "U000110f1", "U000110f2", "U000110f3", "U000110f4",
        "U000110f5", "U000110f6", "U000110f7", "U000110f8", "U000110f9">>,
      <<"U00011136", "U00011137", "U00011138", "U00011139", "U0001113a",
        "U0001113b", "U0001113c", "U0001113d", "U0001113e", "U0001113f">>,
      <<"U000111d0", "U000111d1", "U000111d2", "U000111d3", "U000111d4",
        "U000111d5", "U000111d6", "U000111d7", "U000111d8", "U000111d9">>,
      <<"U000112f0", "U000112f1", "U000112f2", "U000112f3", "U000112f4",
        "U000112f5", "U000112f6", "U000112f7", "U000112f8", "U000112f9">>,
      <<"U00011450", "U00011451", "U00011452", "U00011453", "U00011454",
        "U00011455", "U00011456", "U00011457", "U00011458", "U00011459">>,
      <<"U000114d0", "U000114d1", "U000114d2", "U000114d3", "U000114d4",
        "U000114d5", "U000114d6", "U000114d7", "U000114d8", "U000114d9">>,
      <<"U00011650", "U00011651", "U00011652", "U00011653", "U00011654",
        "U00011655", "U00011656", "U00011657", "U00011658", "U00011659">>,
      <<"U000116c0", "U000116c1", "U000116c2", "U000116c3", "U000116c4",
        "U000116c5", "U000116c6", "U000116c7", "U000116c8", "U000116c9">>,
      <<"U00011730", "U00011731", "U00011732", "U00011733", "U00011734",
        "U00011735", "U00011736", "U00011737", "U00011738", "U00011739">>,
      <<"U000118e0", "U000118e1", "U000118e2", "U000118e3", "U000118e4",
        "U000118e5", "U000118e6", "U000118e7", "U000118e8", "U000118e9">>,
      <<"U00011950", "U00011951", "U00011952", "U00011953", "U00011954",
        "U00011955", "U00011956", "U00011957", "U00011958", "U00011959">>,
      <<"U00011c50", "U00011c51", "U00011c52", "U00011c53", "U00011c54",
        "U00011c55", "U00011c56", "U00011c57", "U00011c58", "U00011c59">>,
      <<"U00011d50", "U00011d51", "U00011d52", "U00011d53", "U00011d54",
        "U00011d55", "U00011d56", "U00011d57", "U00011d58", "U00011d59">>,
      <<"U00011da0", "U00011da1", "U00011da2", "U00011da3", "U00011da4",
        "U00011da5", "U00011da6", "U00011da7", "U00011da8", "U00011da9">>,
      <<"U00016a60", "U00016a61", "U00016a62", "U00016a63", "U00016a64",
        "U00016a65", "U00016a66", "U00016a67", "U00016a68", "U00016a69">>,
      <<"U00016ac0", "U00016ac1", "U00016ac2", "U00016ac3", "U00016ac4",
        "U00016ac5", "U00016ac6", "U00016ac7", "U00016ac8", "U00016ac9">>,
      <<"U00016b50", "U00016b51", "U00016b52", "U00016b53", "U00016b54",
        "U00016b55", "U00016b56", "U00016b57", "U00016b58", "U00016b59">>,
      <<"U0001d7ce", "U0001d7cf", "U0001d7d0", "U0001d7d1", "U0001d7d2",
        "U0001d7d3", "U0001d7d4", "U0001d7d5", "U0001d7d6", "U0001d7d7">>,
      <<"U0001d7d8", "U0001d7d9", "U0001d7da", "U0001d7db", "U0001d7dc",
        "U0001d7dd", "U0001d7de", "U0001d7df", "U0001d7e0", "U0001d7e1">>,
      <<"U0001d7e2", "U0001d7e3", "U0001d7e4", "U0001d7e5", "U0001d7e6",
        "U0001d7e7", "U0001d7e8", "U0001d7e9", "U0001d7ea", "U0001d7eb">>,
      <<"U0001d7ec", "U0001d7ed", "U0001d7ee", "U0001d7ef", "U0001d7f0",
        "U0001d7f1", "U0001d7f2", "U0001d7f3", "U0001d7f4", "U0001d7f5">>,
      <<"U0001d7f6", "U0001d7f7", "U0001d7f8", "U0001d7f9", "U0001d7fa",
        "U0001d7fb", "U0001d7fc", "U0001d7fd", "U0001d7fe", "U0001d7ff">>,
      <<"U0001e140", "U0001e141", "U0001e142", "U0001e143", "U0001e144",
        "U0001e145", "U0001e146", "U0001e147", "U0001e148", "U0001e149">>,
      <<"U0001e2f0", "U0001e2f1", "U0001e2f2", "U0001e2f3", "U0001e2f4",
        "U0001e2f5", "U0001e2f6", "U0001e2f7", "U0001e2f8", "U0001e2f9">>,
      <<"U0001e950", "U0001e951", "U0001e952", "U0001e953", "U0001e954",
        "U0001e955", "U0001e956", "U0001e957", "U0001e958", "U0001e959">>,
      <<"U0001fbf0", "U0001fbf1", "U0001fbf2", "U0001fbf3", "U0001fbf4",
        "U0001fbf5", "U0001fbf6", "U0001fbf7", "U0001fbf8", "U0001fbf9">>>>

DigitSet ==
    {Digits[k] : k \in 1..10}
        \cup {UnicodeDigits[b][k] : b \in 1..Len(UnicodeDigits), k \in 1..10}

DigitVal(c) ==
    (CHOOSE k \in 1..10 :
        \/ Digits[k] = c
        \/ \E b \in 1..Len(UnicodeDigits) : UnicodeDigits[b][k] = c) - 1

\* str(n) for n >= 0.
RECURSIVE ToDigits(_)
ToDigits(n) ==
    IF n < 10 THEN <<Digits[n + 1]>>
    ELSE ToDigits(n \div 10) \o <<Digits[(n % 10) + 1]>>

\* A non-empty sequence of digits without its leading zeros.
Significant(s) ==
    SubSeq(s,
           CHOOSE k \in 1..Len(s) :
               /\ k = Len(s) \/ DigitVal(s[k]) # 0
               /\ \A j \in 1..(k - 1) : DigitVal(s[j]) = 0,
           Len(s))

RECURSIVE DigitsValueOf(_)
DigitsValueOf(s) ==
    IF Len(s) = 1 THEN DigitVal(s[1])
    ELSE 10 * DigitsValueOf(SubSeq(s, 1, Len(s) - 1)) + DigitVal(s[Len(s)])

\* The value of a non-empty sequence of digits.
DigitsValue(s) == DigitsValueOf(Significant(s))

AllDigits(s) == Len(s) > 0 /\ \A k \in 1..Len(s) : s[k] \in DigitSet

\* The whitespace int() skips around a literal: the ASCII space, tab, line
\* feed, vertical tab, form feed and carriage return, and the Unicode spaces
\* outside ASCII (U+0085, U+00A0, U+1680, ...).  The separators U+001C..U+001F
\* are not among them.
Whitespace ==
    {" ", "\t", "\n", "", "\f", "\r", "", " ", "u1680", "u2000", "u2001",
     "u2002", "u2003", "u2004", "u2005", "u2006", "u2007", "u2008", "u2009",
     "u200a", "u2028", "u2029", "u202f", "u205f", "u3000"}

\* The text from its first character that is no whitespace on.
LStrip(s) ==
    IF \A k \in 1..Len(s) : s[k] \in Whitespace THEN <<>>
    ELSE SubSeq(s,
                CHOOSE k \in 1..Len(s) :
                    /\ s[k] \notin Whitespace
                    /\ \A j \in 1..(k - 1) : s[j] \in Whitespace,
                Len(s))

\* The text up to its last character that is no whitespace.
RStrip(s) ==
    IF \A k \in 1..Len(s) : s[k] \in Whitespace THEN <<>>
    ELSE SubSeq(s, 1,
                CHOOSE k \in 1..Len(s) :
                    /\ s[k] \notin Whitespace
                    /\ \A j \in (k + 1)..Len(s) : s[j] \in Whitespace)

Strip(s) == RStrip(LStrip(s))

\* The literal without its sign.
Unsigned(s) == IF Len(s) > 0 /\ s[1] \in {"-", "+"} THEN Tail(s) ELSE s

\* Digits, with single underscores between digits.
IsDigitGroups(s) ==
    /\ Len(s) > 0
    /\ \A k \in 1..Len(s) :
           \/ s[k] \in DigitSet
           \/ /\ s[k] = "_"
              /\ 1 < k /\ k < Len(s)
              /\ s[k - 1] \in DigitSet
              /\ s[k + 1] \in DigitSet

\* The grammar of int(str), base 10: surrounding whitespace is skipped, then
\* an optional sign, then digits with single underscores between them.
IsIntLiteral(s) == IsDigitGroups(Unsigned(Strip(s)))

\* The digits of a literal, without whitespace, sign and underscores.
LiteralDigits(s) == SelectSeq(Unsigned(Strip(s)), LAMBDA c : c # "_")

\* The first n characters of a text.
Truncate(s, n) == SubSeq(s, 1, Min(Len(s), n))

\* str(n)
IntText(n) == IF n < 0 THEN <<"-">> \o ToDigits(0 - n) ELSE ToDigits(n)

\* sep.join(parts), halving the parts.
RECURSIVE Join(_, _)
Join(parts, sep) ==
    IF Len(parts) = 0 THEN <<>>
    ELSE IF Len(parts) = 1 THEN parts[1]
    ELSE Join(SubSeq(parts, 1, Len(parts) \div 2), sep) \o sep
             \o Join(SubSeq(parts, Len(parts) \div 2 + 1, Len(parts)), sep)

\* text.split(sep) for a one-character sep: "" splits to one empty part.
RECURSIVE SplitAcc(_, _, _)
SplitAcc(text, sep, cur) ==
    IF Len(text) = 0 THEN <<cur>>
    ELSE IF text[1] = sep THEN <<cur>> \o SplitAcc(Tail(text), sep, <<>>)
    ELSE SplitAcc(Tail(text), sep, Append(cur, text[1]))

Split(text, sep) == SplitAcc(text, sep, <<>>)

\* needle in haystack
Contains(haystack, needle) ==
    \E k \in 0..(Len(haystack) - Len(needle)) :
        SubSeq(haystack, k + 1, k + Len(needle)) = needle

\* "".join(parts), halving the parts.
RECURSIVE Concat(_)
Concat(parts) ==
    IF Len(parts) = 0 THEN <<>>
    ELSE IF Len(parts) = 1 THEN parts[1]
    ELSE Concat(SubSeq(parts, 1, Len(parts) \div 2))
             \o Concat(SubSeq(parts, Len(parts) \div 2 + 1, Len(parts)))


(***************************************************************************)
(* Request values.  A JSON value is tagged with its Python type.           *)
(***************************************************************************)
IntV(n) == [t |-> "int", v |-> n]
BoolV(b) == [t |-> "bool", b |-> b]
\* A finite float, given in tenths: FloatV(25) is 2.5.
FloatV(tenths) == [t |-> "float", kind |-> "finite", tenths |-> tenths]
\* float("inf") and float("nan"), which json.loads reads from Infinity, NaN.
InfV == [t |-> "float", kind |-> "inf", tenths |-> 0]
NanV == [t |-> "float", kind |-> "nan", tenths |-> 0]
StrV(s) == [t |-> "str", s |-> s]
NoneV == [t |-> "NoneType"]
ListV == [t |-> "list"]
\* A JSON object given as a value.
MapV == [t |-> "dict"]

ToolName == <<"p", "u", "b", "m", "e", "d", "_", "s", "e", "a", "r", "c",
              "h">>

OtherName == <<"p", "u", "b", "m", "e", "d", "_", "f", "e", "t", "c", "h">>

Names == {ToolName, OtherName, <<>>}

QNone == <<"z", "z">>
QFew == <<"x">>
QMany == <<"d", "m">>

Queries == {QNone, QFew, QMany}

MaxResultsValues ==
    {IntV(n) : n \in {-1, 0, 1, 2, 15, 16, 9000}}
        \cup {BoolV(TRUE), BoolV(FALSE)}
        \cup {FloatV(25), FloatV(159), FloatV(-5), InfV, NanV}
        \cup {StrV(<<"2">>), StrV(<<" ", "2">>), StrV(<<"2", "\n">>),
              StrV(<<"1", "_", "0">>), StrV(<<"-", "1">>),
              StrV(<<"2", ".", "5">>), StrV(<<"a", "b", "c">>),
              StrV(<<"1", "_">>), StrV(<<>>),
              StrV(<<"", "2", " ">>), StrV(<<"u0663">>),
              StrV(<<"2", "'">>), StrV(<<"ue000">>)}
        \cup {NoneV, ListV, MapV}

\* arguments that are a mapping: a function from keys to values.
DictV(items) == [type |-> "dict", items |-> items]

Dicts ==
    {DictV(<<>>)}
        \cup {DictV([max_results |-> m]) : m \in MaxResultsValues}
        \cup {DictV([query |-> q]) : q \in Queries}
        \cup {DictV([query |-> q, max_results |-> m]) :
                q \in Queries, m \in MaxResultsValues}

\* arguments that are not a mapping.
NonDicts == {[type |-> "NoneType"], [type |-> "list"], [type |-> "str"]}

Arguments == Dicts \cup NonDicts

\* The requests of the concurrent specification.
ConcNames == {ToolName}

ConcArguments ==
    {DictV([query |-> q]) : q \in {QNone, QFew}}
        \cup {DictV([query |-> QFew, max_results |-> IntV(1)])}

(***************************************************************************)
(* Exceptions.  Exc(type, args) is the exception the type builds from the  *)
(* arguments args; an argument is an int, a bool, a float, None or a str,  *)
(* and the reason of a URLError may be an exception.  str(e) is computed   *)
(* as the type's __str__ does.                                             *)
(***************************************************************************)
Exc(type, args) == [type |-> type, args |-> args]

\* An exception as the argument of another.
ExcV(e) == [t |-> "exc", e |-> e]

\* urllib.error.HTTPError(url, code, msg, hdrs, fp): its args are empty.
HTTPError(code, msg) ==
    [type |-> "HTTPError", args |-> <<>>, code |-> code, msg |-> msg]

\* http.client.IncompleteRead(partial, expected): nread is len(partial),
\* expected an int or None.
IncompleteRead(nread, expected) ==
    [type |-> "IncompleteRead", args |-> <<>>, nread |-> nread,
     expected |-> expected]

\* json.JSONDecodeError(msg, doc, pos).
JSONDecodeError(msg, doc, pos) ==
    [type |-> "JSONDecodeError", args |-> <<>>, msg |-> msg, doc |-> doc,
     pos |-> pos]

\* An exception of any other class that defines its own __str__, given with
\* the text that __str__ returns.
OwnStr(type, text) == [type |-> type, args |-> <<>>, text |-> text]

\* What repr writes for the characters up to U+00FF that it does not print
\* as they are: the control characters, the no-break space and the soft
\* hyphen.
ReprEscapes ==
    <<<<"u0000", <<"\\", "x", "0", "0">>>>, <<"", <<"\\", "x", "0", "1">>>>,
      <<"", <<"\\", "x", "0", "2">>>>, <<"", <<"\\", "x", "0", "3">>>>,
      <<"", <<"\\", "x", "0", "4">>>>, <<"", <<"\\", "x", "0", "5">>>>,
      <<"", <<"\\", "x", "0", "6">>>>, <<"", <<"\\", "x", "0", "7">>>>,
      <<"", <<"\\", "x", "0", "8">>>>, <<"\t", <<"\\", "t">>>>,
      <<"\n", <<"\\", "n">>>>, <<"", <<"\\", "x", "0", "b">>>>,
      <<"\f", <<"\\", "x", "0", "c">>>>, <<"\r", <<"\\", "r">>>>,
      <<"", <<"\\", "x", "0", "e">>>>, <<"", <<"\\", "x", "0", "f">>>>,
      <<"", <<"\\", "x", "1", "0">>>>, <<"", <<"\\", "x", "1", "1">>>>,
      <<"", <<"\\", "x", "1", "2">>>>, <<"", <<"\\", "x", "1", "3">>>>,
      <<"", <<"\\", "x", "1", "4">>>>, <<"", <<"\\", "x", "1", "5">>>>,
      <<"", <<"\\", "x", "1", "6">>>>, <<"", <<"\\", "x", "1", "7">>>>,
      <<"", <<"\\", "x", "1", "8">>>>, <<"", <<"\\", "x", "1", "9">>>>,
      <<"", <<"\\", "x", "1", "a">>>>, <<"", <<"\\", "x", "1", "b">>>>,
      <<"", <<"\\", "x", "1", "c">>>>, <<"", <<"\\", "x", "1", "d">>>>,
      <<"", <<"\\", "x", "1", "e">>>>, <<"", <<"\\", "x", "1", "f">>>>,
      <<"", <<"\\", "x", "7", "f">>>>, <<"", <<"\\", "x", "8", "0">>>>,
      <<"", <<"\\", "x", "8", "1">>>>, <<"", <<"\\", "x", "8", "2">>>>,
      <<"", <<"\\", "x", "8", "3">>>>, <<"", <<"\\", "x", "8", "4">>>>,
      <<"", <<"\\", "x", "8", "5">>>>, <<"", <<"\\", "x", "8", "6">>>>,
      <<"", <<"\\", "x", "8", "7">>>>, <<"", <<"\\", "x", "8", "8">>>>,
      <<"", <<"\\", "x", "8", "9">>>>, <<"", <<"\\", "x", "8", "a">>>>,
      <<"", <<"\\", "x", "8", "b">>>>, <<"", <<"\\", "x", "8", "c">>>>,
      <<"", <<"\\", "x", "8", "d">>>>, <<"", <<"\\", "x", "8", "e">>>>,
      <<"", <<"\\", "x", "8", "f">>>>, <<"", <<"\\", "x", "9", "0">>>>,
      <<"", <<"\\", "x", "9", "1">>>>, <<"", <<"\\", "x", "9", "2">>>>,
      <<"", <<"\\", "x", "9", "3">>>>, <<"", <<"\\", "x", "9", "4">>>>,
      <<"", <<"\\", "x", "9", "5">>>>, <<"", <<"\\", "x", "9", "6">>>>,
      <<"", <<"\\", "x", "9", "7">>>>, <<"", <<"\\", "x", "9", "8">>>>,
      <<"", <<"\\", "x", "9", "9">>>>, <<"", <<"\\", "x", "9", "a">>>>,
      <<"", <<"\\", "x", "9", "b">>>>, <<"", <<"\\", "x", "9", "c">>>>,
      <<"", <<"\\", "x", "9", "d">>>>, <<"", <<"\\", "x", "9", "e">>>>,
      <<"", <<"\\", "x", "9", "f">>>>, <<" ", <<"\\", "x", "a", "0">>>>,
      <<"­", <<"\\", "x", "a", "d">>>>>>

EscapedChars == {ReprEscapes[k][1] : k \in 1..Len(ReprEscapes)}

\* The digits of a code point in an escape.
HexDigits ==
    <<"0", "1", "2", "3", "4", "5", "6", "7", "8", "9", "a", "b", "c", "d",
      "e", "f">>

HexVal(d) == (CHOOSE k \in 1..Len(HexDigits) : HexDigits[k] = d) - 1

\* The characters of the name of a code point: u and four digits, or U and
\* eight.
NameChars(c) == [k \in 1..Len(c) |-> SubSeq(c, k, k)]

RECURSIVE HexValue(_)
HexValue(ds) ==
    IF Len(ds) = 0 THEN 0
    ELSE 16 * HexValue(SubSeq(ds, 1, Len(ds) - 1)) + HexVal(ds[Len(ds)])

\* The code point of a character above U+00FF.
CodePoint(c) == HexValue(Tail(NameChars(c)))

\* The ranges of code points above U+00FF that str.isprintable rejects
\* (Unicode 14.0): the categories Cc, Cf, Cs, Co, Cn, Zl, Zp and Zs, that
\* is the format characters, the spaces and separators, the surrogates,
\* the private-use and the unassigned code points.
Unprintable ==
    <<<<888, 889>>, <<896, 899>>, <<907, 907>>, <<909, 909>>, <<930, 930>>,
      <<1328, 1328>>, <<1367, 1368>>, <<1419, 1420>>, <<1424, 1424>>,
      <<1480, 1487>>, <<1515, 1518>>, <<1525, 1541>>, <<1564, 1564>>,
      <<1757, 1757>>, <<1806, 1807>>, <<1867, 1868>>, <<1970, 1983>>,
      <<2043, 2044>>, <<2094, 2095>>, <<2111, 2111>>, <<2140, 2141>>,
      <<2143, 2143>>, <<2155, 2159>>, <<2191, 2199>>, <<2274, 2274>>,
      <<2436, 2436>>, <<2445, 2446>>, <<2449, 2450>>, <<2473, 2473>>,
      <<2481, 2481>>, <<2483, 2485>>, <<2490, 2491>>, <<2501, 2502>>,
      <<2505, 2506>>, <<2511, 2518>>, <<2520, 2523>>, <<2526, 2526>>,
      <<2532, 2533>>, <<2559, 2560>>, <<2564, 2564>>, <<2571, 2574>>,
      <<2577, 2578>>, <<2601, 2601>>, <<2609, 2609>>, <<2612, 2612>>,
      <<2615, 2615>>, <<2618, 2619>>, <<2621, 2621>>, <<2627, 2630>>,
      <<2633, 2634>>, <<2638, 2640>>, <<2642, 2648>>, <<2653, 2653>>,
      <<2655, 2661>>, <<2679, 2688>>, <<2692, 2692>>, <<2702, 2702>>,
      <<2706, 2706>>, <<2729, 2729>>, <<2737, 2737>>, <<2740, 2740>>,
      <<2746, 2747>>, <<2758, 2758>>, <<2762, 2762>>, <<2766, 2767>>,
      <<2769, 2783>>, <<2788, 2789>>, <<2802, 2808>>, <<2816, 2816>>,
      <<2820, 2820>>, <<2829, 2830>>, <<2833, 2834>>, <<2857, 2857>>,
      <<2865, 2865>>, <<2868, 2868>>, <<2874, 2875>>, <<2885, 2886>>,
      <<2889, 2890>>, <<2894, 2900>>, <<2904, 2907>>, <<2910, 2910>>,
      <<2916, 2917>>, <<2936, 2945>>, <<2948, 2948>>, <<2955, 2957>>,
      <<2961, 2961>>, <<2966, 2968>>, <<2971, 2971>>, <<2973, 2973>>,
      <<2976, 2978>>, <<2981, 2983>>, <<2987, 2989>>, <<3002, 3005>>,
      <<3011, 3013>>, <<3017, 3017>>, <<3022, 3023>>, <<3025, 3030>>,
      <<3032, 3045>>, <<3067, 3071>>, <<3085, 3085>>, <<3089, 3089>>,
      <<3113, 3113>>, <<3130, 3131>>, <<3141, 3141>>, <<3145, 3145>>,
      <<3150, 3156>>, <<3159, 3159>>, <<3163, 3164>>, <<3166, 3167>>,
      <<3172, 3173>>, <<3184, 3190>>, <<3213, 3213>>, <<3217, 3217>>,
      <<3241, 3241>>, <<3252, 3252>>, <<3258, 3259>>, <<3269, 3269>>,
      <<3273, 3273>>, <<3278, 3284>>, <<3287, 3292>>, <<3295, 3295>>,
      <<3300, 3301>>, <<3312, 3312>>, <<3315, 3327>>, <<3341, 3341>>,
      <<3345, 3345>>, <<3397, 3397>>, <<3401, 3401>>, <<3408, 3411>>,
      <<3428, 3429>>, <<3456, 3456>>, <<3460, 3460>>, <<3479, 3481>>,
      <<3506, 3506>>, <<3516, 3516>>, <<3518, 3519>>, <<3527, 3529>>,
      <<3531, 3534>>, <<3541, 3541>>, <<3543, 3543>>, <<3552, 3557>>,
      <<3568, 3569>>, <<3573, 3584>>, <<3643, 3646>>, <<3676, 3712>>,
      <<3715, 3715>>, <<3717, 3717>>, <<3723, 3723>>, <<3748, 3748>>,
      <<3750, 3750>>, <<3774, 3775>>, <<3781, 3781>>, <<3783, 3783>>,
      <<3790, 3791>>, <<3802, 3803>>, <<3808, 3839>>, <<3912, 3912>>,
      <<3949, 3952>>, <<3992, 3992>>, <<4029, 4029>>, <<4045, 4045>>,
      <<4059, 4095>>, <<4294, 4294>>, <<4296, 4300>>, <<4302, 4303>>,
      <<4681, 4681>>, <<4686, 4687>>, <<4695, 4695>>, <<4697, 4697>>,
      <<4702, 4703>>, <<4745, 4745>>, <<4750, 4751>>, <<4785, 4785>>,
      <<4790, 4791>>, <<4799, 4799>>, <<4801, 4801>>, <<4806, 4807>>,
      <<4823, 4823>>, <<4881, 4881>>, <<4886, 4887>>, <<4955, 4956>>,
      <<4989, 4991>>, <<5018, 5023>>, <<5110, 5111>>, <<5118, 5119>>,
      <<5760, 5760>>, <<5789, 5791>>, <<5881, 5887>>, <<5910, 5918>>,
      <<5943, 5951>>, <<5972, 5983>>, <<5997, 5997>>, <<6001, 6001>>,
      <<6004, 6015>>, <<6110, 6111>>, <<6122, 6127>>, <<6138, 6143>>,
      <<6158, 6158>>, <<6170, 6175>>, <<6265, 6271>>, <<6315, 6319>>,
      <<6390, 6399>>, <<6431, 6431>>, <<6444, 6447>>, <<6460, 6463>>,
      <<6465, 6467>>, <<6510, 6511>>, <<6517, 6527>>, <<6572, 6575>>,
      <<6602, 6607>>, <<6619, 6621>>, <<6684, 6685>>, <<6751, 6751>>,
      <<6781, 6782>>, <<6794, 6799>>, <<6810, 6815>>, <<6830, 6831>>,
      <<6863, 6911>>, <<6989, 6991>>, <<7039, 7039>>, <<7156, 7163>>,
      <<7224, 7226>>, <<7242, 7244>>, <<7305, 7311>>, <<7355, 7356>>,
      <<7368, 7375>>, <<7419, 7423>>, <<7958, 7959>>, <<7966, 7967>>,
      <<8006, 8007>>, <<8014, 8015>>, <<8024, 8024>>, <<8026, 8026>>,
      <<8028, 8028>>, <<8030, 8030>>, <<8062, 8063>>, <<8117, 8117>>,
      <<8133, 8133>>, <<8148, 8149>>, <<8156, 8156>>, <<8176, 8177>>,
      <<8181, 8181>>, <<8191, 8207>>, <<8232, 8239>>, <<8287, 8303>>,
      <<8306, 8307>>, <<8335, 8335>>, <<8349, 8351>>, <<8385, 8399>>,
      <<8433, 8447>>, <<8588, 8591>>, <<9255, 9279>>, <<9291, 9311>>,
      <<11124, 11125>>, <<11158, 11158>>, <<11508, 11512>>, <<11558, 11558>>,
      <<11560, 11564>>, <<11566, 11567>>, <<11624, 11630>>, <<11633, 11646>>,
      <<11671, 11679>>, <<11687, 11687>>, <<11695, 11695>>, <<11703, 11703>>,
      <<11711, 11711>>, <<11719, 11719>>, <<11727, 11727>>, <<11735, 11735>>,
      <<11743, 11743>>, <<11870, 11903>>, <<11930, 11930>>, <<12020, 12031>>,
      <<12246, 12271>>, <<12284, 12288>>, <<12352, 12352>>, <<12439, 12440>>,
      <<12544, 12548>>, <<12592, 12592>>, <<12687, 12687>>, <<12772, 12783>>,
      <<12831, 12831>>, <<42125, 42127>>, <<42183, 42191>>, <<42540, 42559>>,
      <<42744, 42751>>, <<42955, 42959>>, <<42962, 42962>>, <<42964, 42964>>,
      <<42970, 42993>>, <<43053, 43055>>, <<43066, 43071>>, <<43128, 43135>>,
      <<43206, 43213>>, <<43226, 43231>>, <<43348, 43358>>, <<43389, 43391>>,
      <<43470, 43470>>, <<43482, 43485>>, <<43519, 43519>>, <<43575, 43583>>,
      <<43598, 43599>>, <<43610, 43611>>, <<43715, 43738>>, <<43767, 43776>>,
      <<43783, 43784>>, <<43791, 43792>>, <<43799, 43807>>, <<43815, 43815>>,
      <<43823, 43823>>, <<43884, 43887>>, <<44014, 44015>>, <<44026, 44031>>,
      <<55204, 55215>>, <<55239, 55242>>, <<55292, 63743>>, <<64110, 64111>>,
      <<64218, 64255>>, <<64263, 64274>>, <<64280, 64284>>, <<64311, 64311>>,
      <<64317, 64317>>, <<64319, 64319>>, <<64322, 64322>>, <<64325, 64325>>,
      <<64451, 64466>>, <<64912, 64913>>, <<64968, 64974>>, <<64976, 65007>>,
      <<65050, 65055>>, <<65107, 65107>>, <<65127, 65127>>, <<65132, 65135>>,
      <<65141, 65141>>, <<65277, 65280>>, <<65471, 65473>>, <<65480, 65481>>,
      <<65488, 65489>>, <<65496, 65497>>, <<65501, 65503>>, <<65511, 65511>>,
      <<65519, 65531>>, <<65534, 65535>>, <<65548, 65548>>, <<65575, 65575>>,
      <<65595, 65595>>, <<65598, 65598>>, <<65614, 65615>>, <<65630, 65663>>,
      <<65787, 65791>>, <<65795, 65798>>, <<65844, 65846>>, <<65935, 65935>>,
      <<65949, 65951>>, <<65953, 65999>>, <<66046, 66175>>, <<66205, 66207>>,
      <<66257, 66271>>, <<66300, 66303>>, <<66340, 66348>>, <<66379, 66383>>,
      <<66427, 66431>>, <<66462, 66462>>, <<66500, 66503>>, <<66518, 66559>>,
      <<66718, 66719>>, <<66730, 66735>>, <<66772, 66775>>, <<66812, 66815>>,
      <<66856, 66863>>, <<66916, 66926>>, <<66939, 66939>>, <<66955, 66955>>,
      <<66963, 66963>>, <<66966, 66966>>, <<66978, 66978>>, <<66994, 66994>>,
      <<67002, 67002>>, <<67005, 67071>>, <<67383, 67391>>, <<67414, 67423>>,
      <<67432, 67455>>, <<67462, 67462>>, <<67505, 67505>>, <<67515, 67583>>,
      <<67590, 67591>>, <<67593, 67593>>, <<67638, 67638>>, <<67641, 67643>>,
      <<67645, 67646>>, <<67670, 67670>>, <<67743, 67750>>, <<67760, 67807>>,
      <<67827, 67827>>, <<67830, 67834>>, <<67868, 67870>>, <<67898, 67902>>,
      <<67904, 67967>>, <<68024, 68027>>, <<68048, 68049>>, <<68100, 68100>>,
      <<68103, 68107>>, <<68116, 68116>>, <<68120, 68120>>, <<68150, 68151>>,
      <<68155, 68158>>, <<68169, 68175>>, <<68185, 68191>>, <<68256, 68287>>,
      <<68327, 68330>>, <<68343, 68351>>, <<68406, 68408>>, <<68438, 68439>>,
      <<68467, 68471>>, <<68498, 68504>>, <<68509, 68520>>, <<68528, 68607>>,
      <<68681, 68735>>, <<68787, 68799>>, <<68851, 68857>>, <<68904, 68911>>,
      <<68922, 69215>>, <<69247, 69247>>, <<69290, 69290>>, <<69294, 69295>>,
      <<69298, 69375>>, <<69416, 69423>>, <<69466, 69487>>, <<69514, 69551>>,
      <<69580, 69599>>, <<69623, 69631>>, <<69710, 69713>>, <<69750, 69758>>,
      <<69821, 69821>>, <<69827, 69839>>, <<69865, 69871>>, <<69882, 69887>>,
      <<69941, 69941>>, <<69960, 69967>>, <<70007, 70015>>, <<70112, 70112>>,
      <<70133, 70143>>, <<70162, 70162>>, <<70207, 70271>>, <<70279, 70279>>,
      <<70281, 70281>>, <<70286, 70286>>, <<70302, 70302>>, <<70314, 70319>>,
      <<70379, 70383>>, <<70394, 70399>>, <<70404, 70404>>, <<70413, 70414>>,
      <<70417, 70418>>, <<70441, 70441>>, <<70449, 70449>>, <<70452, 70452>>,
      <<70458, 70458>>, <<70469, 70470>>, <<70473, 70474>>, <<70478, 70479>>,
      <<70481, 70486>>, <<70488, 70492>>, <<70500, 70501>>, <<70509, 70511>>,
      <<70517, 70655>>, <<70748, 70748>>, <<70754, 70783>>, <<70856, 70863>>,
      <<70874, 71039>>, <<71094, 71095>>, <<71134, 71167>>, <<71237, 71247>>,
      <<71258, 71263>>, <<71277, 71295>>, <<71354, 71359>>, <<71370, 71423>>,
      <<71451, 71452>>, <<71468, 71471>>, <<71495, 71679>>, <<71740, 71839>>,
      <<71923, 71934>>, <<71943, 71944>>, <<71946, 71947>>, <<71956, 71956>>,
      <<71959, 71959>>, <<71990, 71990>>, <<71993, 71994>>, <<72007, 72015>>,
      <<72026, 72095>>, <<72104, 72105>>, <<72152, 72153>>, <<72165, 72191>>,
      <<72264, 72271>>, <<72355, 72367>>, <<72441, 72703>>, <<72713, 72713>>,
      <<72759, 72759>>, <<72774, 72783>>, <<72813, 72815>>, <<72848, 72849>>,
      <<72872, 72872>>, <<72887, 72959>>, <<72967, 72967>>, <<72970, 72970>>,
      <<73015, 73017>>, <<73019, 73019>>, <<73022, 73022>>, <<73032, 73039>>,
      <<73050, 73055>>, <<73062, 73062>>, <<73065, 73065>>, <<73103, 73103>>,
      <<73106, 73106>>, <<73113, 73119>>, <<73130, 73439>>, <<73465, 73647>>,
      <<73649, 73663>>, <<73714, 73726>>, <<74650, 74751>>, <<74863, 74863>>,
      <<74869, 74879>>, <<75076, 77711>>, <<77811, 77823>>, <<78895, 82943>>,
      <<83527, 92159>>, <<92729, 92735>>, <<92767, 92767>>, <<92778, 92781>>,
      <<92863, 92863>>, <<92874, 92879>>, <<92910, 92911>>, <<92918, 92927>>,
      <<92998, 93007>>, <<93018, 93018>>, <<93026, 93026>>, <<93048, 93052>>,
      <<93072, 93759>>, <<93851, 93951>>, <<94027, 94030>>, <<94088, 94094>>,
      <<94112, 94175>>, <<94181, 94191>>, <<94194, 94207>>, <<100344, 100351>>,
      <<101590, 101631>>, <<101641, 110575>>, <<110580, 110580>>,
      <<110588, 110588>>, <<110591, 110591>>, <<110883, 110927>>,
      <<110931, 110947>>, <<110952, 110959>>, <<111356, 113663>>,
      <<113771, 113775>>, <<113789, 113791>>, <<113801, 113807>>,
      <<113818, 113819>>, <<113824, 118527>>, <<118574, 118575>>,
      <<118599, 118607>>, <<118724, 118783>>, <<119030, 119039>>,
      <<119079, 119080>>, <<119155, 119162>>, <<119275, 119295>>,
      <<119366, 119519>>, <<119540, 119551>>, <<119639, 119647>>,
      <<119673, 119807>>, <<119893, 119893>>, <<119965, 119965>>,
      <<119968, 119969>>, <<119971, 119972>>, <<119975, 119976>>,
      <<119981, 119981>>, <<119994, 119994>>, <<119996, 119996>>,
      <<120004, 120004>>, <<120070, 120070>>, <<120075, 120076>>,
      <<120085, 120085>>, <<120093, 120093>>, <<120122, 120122>>,
      <<120127, 120127>>, <<120133, 120133>>, <<120135, 120137>>,
      <<120145, 120145>>, <<120486, 120487>>, <<120780, 120781>>,
      <<121484, 121498>>, <<121504, 121504>>, <<121520, 122623>>,
      <<122655, 122879>>, <<122887, 122887>>, <<122905, 122906>>,
      <<122914, 122914>>, <<122917, 122917>>, <<122923, 123135>>,
      <<123181, 123183>>, <<123198, 123199>>, <<123210, 123213>>,
      <<123216, 123535>>, <<123567, 123583>>, <<123642, 123646>>,
      <<123648, 124895>>, <<124903, 124903>>, <<124908, 124908>>,
      <<124911, 124911>>, <<124927, 124927>>, <<125125, 125126>>,
      <<125143, 125183>>, <<125260, 125263>>, <<125274, 125277>>,
      <<125280, 126064>>, <<126133, 126208>>, <<126270, 126463>>,
      <<126468, 126468>>, <<126496, 126496>>, <<126499, 126499>>,
      <<126501, 126502>>, <<126504, 126504>>, <<126515, 126515>>,
      <<126520, 126520>>, <<126522, 126522>>, <<126524, 126529>>,
      <<126531, 126534>>, <<126536, 126536>>, <<126538, 126538>>,
      <<126540, 126540>>, <<126544, 126544>>, <<126547, 126547>>,
      <<126549, 126550>>, <<126552, 126552>>, <<126554, 126554>>,
      <<126556, 126556>>, <<126558, 126558>>, <<126560, 126560>>,
      <<126563, 126563>>, <<126565, 126566>>, <<126571, 126571>>,
      <<126579, 126579>>, <<126584, 126584>>, <<126589, 126589>>,
      <<126591, 126591>>, <<126602, 126602>>, <<126620, 126624>>,
      <<126628, 126628>>, <<126634, 126634>>, <<126652, 126703>>,
      <<126706, 126975>>, <<127020, 127023>>, <<127124, 127135>>,
      <<127151, 127152>>, <<127168, 127168>>, <<127184, 127184>>,
      <<127222, 127231>>, <<127406, 127461>>, <<127491, 127503>>,
      <<127548, 127551>>, <<127561, 127567>>, <<127570, 127583>>,
      <<127590, 127743>>, <<128728, 128732>>, <<128749, 128751>>,
      <<128765, 128767>>, <<128884, 128895>>, <<128985, 128991>>,
      <<129004, 129007>>, <<129009, 129023>>, <<129036, 129039>>,
      <<129096, 129103>>, <<129114, 129119>>, <<129160, 129167>>,
      <<129198, 129199>>, <<129202, 129279>>, <<129620, 129631>>,
      <<129646, 129647>>, <<129653, 129655>>, <<129661, 129663>>,
      <<129671, 129679>>, <<129709, 129711>>, <<129723, 129727>>,
      <<129734, 129743>>, <<129754, 129759>>, <<129768, 129775>>,
      <<129783, 129791>>, <<129939, 129939>>, <<129995, 130031>>,
      <<130042, 131071>>, <<173792, 173823>>, <<177977, 177983>>,
      <<178206, 178207>>, <<183970, 183983>>, <<191457, 194559>>,
      <<195102, 196607>>, <<201547, 917759>>, <<918000, 1114111>>>>

\* Whether repr escapes a character above U+00FF.
IsUnprintable(c) ==
    /\ Len(c) > 1
    /\ CodePoint(c) > 255
    /\ \E k \in 1..Len(Unprintable) :
           /\ Unprintable[k][1] <= CodePoint(c)
           /\ CodePoint(c) <= Unprintable[k][2]

\* repr encloses in double quotes a text with a single quote and no double
\* quote in it, and in single quotes any other.
Quote(s) ==
    IF /\ \E k \in 1..Len(s) : s[k] = "'"
       /\ ~\E k \in 1..Len(s) : s[k] = "\""
    THEN "\""
    ELSE "'"

\* One character of a repr: the backslash and the enclosing quote take a
\* backslash, an unprintable character its escape (\xhh up to U+00FF,
\* \uhhhh up to U+FFFF, \Uhhhhhhhh above), any other character stands as
\* it is.
ReprChar(c, quote) ==
    IF c = "\\" \/ c = quote THEN <<"\\", c>>
    ELSE IF c \in EscapedChars
    THEN ReprEscapes[CHOOSE k \in 1..Len(ReprEscapes) :
                         ReprEscapes[k][1] = c][2]
    ELSE IF IsUnprintable(c) THEN <<"\\">> \o NameChars(c)
    ELSE <<c>>

\* repr(s) of a str.
Repr(s) ==
    <<Quote(s)>>
        \o Concat([k \in 1..Len(s) |-> ReprChar(s[k], Quote(s))])
        \o <<Quote(s)>>

\* str(x) of a float.
FloatText(v) ==
    IF v.kind = "inf" THEN <<"i", "n", "f">>
    ELSE IF v.kind = "nan" THEN <<"n", "a", "n">>
    ELSE LET a == IF v.tenths < 0 THEN 0 - v.tenths ELSE v.tenths
         IN (IF v.tenths < 0 THEN <<"-">> ELSE <<>>)
                \o ToDigits(a \div 10) \o <<".">> \o ToDigits(a % 10)

\* str(x) and repr(x) of a value that is not a str.
ScalarText(v) ==
    CASE v.t = "int" -> IntText(v.v)
      [] v.t = "bool" -> IF v.b THEN <<"T", "r", "u", "e">>
                         ELSE <<"F", "a", "l", "s", "e">>
      [] v.t = "float" -> FloatText(v)
      [] v.t = "NoneType" -> <<"N", "o", "n", "e">>

RECURSIVE StrOfException(_)

StrOfValue(v) ==
    IF v.t = "str" THEN v.s
    ELSE IF v.t = "exc" THEN StrOfException(v.e)
    ELSE ScalarText(v)

ReprOfValue(v) == IF v.t = "str" THEN Repr(v.s) ELSE ScalarText(v)

\* repr of a tuple.
TupleRepr(args) ==
    <<"(">>
        \o Join([k \in 1..Len(args) |-> ReprOfValue(args[k])], <<",", " ">>)
        \o (IF Len(args) = 1 THEN <<",">> ELSE <<>>)
        \o <<")">>

\* BaseException.__str__: "" without arguments, str of the argument with
\* one, the repr of the tuple with more.
BaseStr(args) ==
    IF Len(args) = 0 THEN <<>>
    ELSE IF Len(args) = 1 THEN StrOfValue(args[1])
    ELSE TupleRepr(args)

\* OSError and its subclasses in the standard library that keep
\* OSError.__str__ (Error to SpecialFileError are those of shutil).
OSErrorTypes ==
    {"OSError", "BlockingIOError", "ChildProcessError", "ConnectionError",
     "BrokenPipeError", "ConnectionAbortedError", "ConnectionRefusedError",
     "ConnectionResetError", "FileExistsError", "FileNotFoundError",
     "InterruptedError", "IsADirectoryError", "NotADirectoryError",
     "PermissionError", "ProcessLookupError", "TimeoutError", "gaierror",
     "herror", "RemoteDisconnected", "UnsupportedOperation", "BadGzipFile",
     "Error", "ExecError", "ReadError", "SameFileError", "SpecialFileError",
     "itimer_error"}

\* ssl.SSLError and its subclasses.
SSLErrorTypes ==
    {"SSLError", "SSLZeroReturnError", "SSLWantReadError",
     "SSLWantWriteError", "SSLSyscallError", "SSLEOFError",
     "SSLCertVerificationError"}

\* The errno values (EAGAIN, EALREADY, EINPROGRESS on Linux) for which
\* OSError(errno, ...) builds a BlockingIOError.
BlockingErrnos == {11, 114, 115}

IsBlockingIOError(type, args) ==
    \/ type = "BlockingIOError"
    \/ /\ type = "OSError"
       /\ Len(args) \in 2..5
       /\ args[1].t = "int"
       /\ args[1].v \in BlockingErrnos

\* OSError(errno, strerror, filename, winerror, filename2): the third
\* argument is the filename unless it is None, or a number given to
\* BlockingIOError; the fifth is filename2 when there is a filename.
HasFilename(type, args) ==
    /\ Len(args) \in 3..5
    /\ args[3].t # "NoneType"
    /\ ~(IsBlockingIOError(type, args) /\ args[3].t \in {"int", "bool"})

HasFilename2(type, args) ==
    HasFilename(type, args) /\ Len(args) = 5 /\ args[5].t # "NoneType"

\* e.args: with a filename, the first two arguments.
ArgsOf(type, args) ==
    IF HasFilename(type, args) THEN SubSeq(args, 1, 2) ELSE args

\* OSError.__str__: "[Errno n] strerror", then the filenames, for two to
\* five arguments; BaseException.__str__ for any other number.
OSErrorStr(type, args) ==
    IF Len(args) \notin 2..5 THEN BaseStr(args)
    ELSE <<"[", "E", "r", "r", "n", "o", " ">> \o StrOfValue(args[1])
             \o <<"]", " ">> \o StrOfValue(args[2])
             \o (IF HasFilename(type, args)
                 THEN <<":", " ">> \o ReprOfValue(args[3])
                 ELSE <<>>)
             \o (IF HasFilename2(type, args)
                 THEN <<" ", "-", ">", " ">> \o ReprOfValue(args[5])
                 ELSE <<>>)

\* SSLError.__str__: strerror when it is a str, else str(e.args).
SSLErrorStr(type, args) ==
    IF Len(args) \in 2..5 /\ args[2].t = "str" THEN args[2].s
    ELSE TupleRepr(ArgsOf(type, args))

\* The exceptions of the standard library that keep BaseException.__str__.
DefaultStrTypes ==
    {"Exception", "ArithmeticError", "AssertionError", "BufferError",
     "EOFError", "FloatingPointError", "IndexError", "LookupError",
     "MemoryError", "NotImplementedError", "OverflowError",
     "RecursionError", "ReferenceError", "RuntimeError",
     "StopAsyncIteration", "StopIteration", "SystemError", "TypeError",
     "UnicodeError", "ValueError", "ZeroDivisionError", "HTTPException",
     "NotConnected"}

\* bool(x) is False.
Falsy(v) ==
    CASE v.t = "str" -> v.s = <<>>
      [] v.t = "int" -> v.v = 0
      [] v.t = "bool" -> ~v.b
      [] v.t = "float" -> v.kind = "finite" /\ v.tenths = 0
      [] v.t = "NoneType" -> TRUE
      [] v.t = "exc" -> FALSE

\* http.client.BadStatusLine(line): __init__ keeps repr(line) in place of a
\* line that is false, so that str(e) of an empty line is the two quotes.
BadStatusLineStr(args) ==
    IF Falsy(args[1]) THEN ReprOfValue(args[1]) ELSE StrOfValue(args[1])

\* URLError and its subclass, whose first argument is the reason.
URLErrorTypes == {"URLError", "ContentTooShortError"}

\* IncompleteRead.__repr__, which is its __str__ too.
IncompleteReadStr(e) ==
    <<"I", "n", "c", "o", "m", "p", "l", "e", "t", "e", "R", "e", "a", "d",
      "(">>
        \o IntText(e.nread)
        \o <<" ", "b", "y", "t", "e", "s", " ", "r", "e", "a", "d">>
        \o (IF e.expected.t = "NoneType" THEN <<>>
            ELSE <<",", " ">> \o StrOfValue(e.expected)
                     \o <<" ", "m", "o", "r", "e", " ", "e", "x", "p",
                          "e", "c", "t", "e", "d">>)
        \o <<")">>

\* JSONDecodeError: "msg: line l column c (char pos)", the line and the
\* column of pos in doc counted from 1.
JSONDecodeErrorStr(e) ==
    LET before == {k \in 1..Min(e.pos, Len(e.doc)) : e.doc[k] = "\n"}
        lineno == Cardinality(before) + 1
        colno == IF before = {} THEN e.pos + 1
                 ELSE e.pos - ((CHOOSE k \in before :
                                   \A j \in before : j <= k) - 1)
    IN e.msg \o <<":", " ", "l", "i", "n", "e", " ">> \o IntText(lineno)
           \o <<" ", "c", "o", "l", "u", "m", "n", " ">> \o IntText(colno)
           \o <<" ", "(", "c", "h", "a", "r", " ">> \o IntText(e.pos)
           \o <<")">>

\* str(e), for the exception types named here: KeyError gives the repr of
\* its one argument; URLError(reason) gives "<urlopen error reason>";
\* HTTPError gives "HTTP Error code: msg".  An exception of a class not
\* named here is given as OwnStr, with its text.
StrOfException(e) ==
    CASE "text" \in DOMAIN e -> e.text
      [] e.type = "HTTPError" ->
             <<"H", "T", "T", "P", " ", "E", "r", "r", "o", "r", " ">>
                 \o StrOfValue(e.code) \o <<":", " ">> \o StrOfValue(e.msg)
      [] e.type = "IncompleteRead" -> IncompleteReadStr(e)
      [] e.type = "JSONDecodeError" -> JSONDecodeErrorStr(e)
      [] e.type = "BadStatusLine" -> BadStatusLineStr(e.args)
      [] e.type \in URLErrorTypes ->
             <<"<", "u", "r", "l", "o", "p", "e", "n", " ", "e", "r", "r",
               "o", "r", " ">>
                 \o StrOfValue(e.args[1]) \o <<">">>
      [] e.type \in SSLErrorTypes -> SSLErrorStr(e.type, e.args)
      [] e.type \in OSErrorTypes -> OSErrorStr(e.type, e.args)
      [] e.type = "KeyError" ->
             IF Len(e.args) = 1 THEN ReprOfValue(e.args[1])
             ELSE BaseStr(e.args)
      [] e.type \in DefaultStrTypes -> BaseStr(e.args)

\* What the calls on Entrez raise: with a text, bare, with two arguments,
\* with an errno, a KeyError, a URLError with a text and with the error of
\* the resolver, an HTTPError, a reply cut short, an empty status line.
NetworkErrors ==
    {Exc("RuntimeError", <<StrV(<<"d", "o", "w", "n">>)>>),
     Exc("TimeoutError", <<>>),
     Exc("RuntimeError", <<StrV(<<"a">>), StrV(<<"b">>)>>),
     Exc("ConnectionResetError", <<IntV(104), StrV(<<"r", "s", "t">>)>>),
     Exc("KeyError", <<StrV(<<"I", "d", "L", "i", "s", "t">>)>>),
     Exc("URLError", <<StrV(<<"d", "o", "w", "n">>)>>),
     Exc("URLError",
         <<ExcV(Exc("gaierror",
                    <<IntV(-2), StrV(<<"n", "o", "h", "o", "s", "t">>)>>))>>),
     HTTPError(IntV(429), StrV(<<"b", "u", "s", "y">>)),
     IncompleteRead(3, IntV(7)),
     Exc("BadStatusLine", <<StrV(<<>>)>>)}

ConcNetworkErrors == {Exc("RuntimeError", <<StrV(<<"d", "o", "w", "n">>)>>)}

NoError == Exc("none", <<>>)

(***************************************************************************)
(* The literature database behind Entrez.                                  *)
(***************************************************************************)
\* Number of records matching a term.
Matches(term) ==
    IF term = QFew THEN 3 ELSE IF term = QMany THEN 120 ELSE 0

\* The k-th identifier matching a term, as text.
PMID(term, k) == ToDigits(1000 * Len(term) + k)

\* A reply as Entrez.read returns it: the count, as text, and n identifiers.
Reply(count, term, n) ==
    [Count |-> count, IdList |-> [k \in 1..n |-> PMID(term, k)]]

\* The reply of a database that honours retmax: the count of the matches and
\* the first retmax identifiers.
ESearchReply(term, retmax) ==
    Reply(ToDigits(Matches(term)), term, Min(Max(retmax, 0), Matches(term)))

\* The replies the database gives to an esearch request.  search takes the
\* reply as it comes and checks neither the count nor the number of
\* identifiers: besides the reply that honours retmax there is one with an
\* identifier more than retmax, one whose count is below its identifiers,
\* one with a negative count and one whose count is no number.
ESearchReplies(term, retmax) ==
    {ESearchReply(term, retmax),
     Reply(ToDigits(Matches(term)), term, Max(retmax, 0) + 1),
     Reply(<<"1">>, term, 2),
     Reply(<<"-", "5">>, term, 1),
     Reply(<<"n", "a">>, term, 1)}

\* The replies of the concurrent specification.
ConcESearchReplies(term, retmax) == {ESearchReply(term, retmax)}

\* One MEDLINE record.
MedlineRecord(id) == <<"P", "M", "I", "D", "-", " ">> \o id \o <<"\n">>

\* The text an efetch reply holds for id="id1,id2,...".
EFetchReply(ids) ==
    Concat([k \in 1..Len(Split(ids, ",")) |-> MedlineRecord(Split(ids, ",")[k])])

NoReply == [Count |-> <<>>, IdList |-> <<>>]

(***************************************************************************)
(* call_tool: validation and the effective cap.                            *)
(***************************************************************************)
\* ValueError(f"Unknown tool: {name}")
UnknownToolError(name) ==
    Exc("ValueError",
        <<StrV(<<"U", "n", "k", "n", "o", "w", "n", " ", "t", "o", "o",
                 "l", ":", " ">>
                   \o name)>>)

\* ValueError("Invalid search arguments")
InvalidArgumentsError ==
    Exc("ValueError",
        <<StrV(<<"I", "n", "v", "a", "l", "i", "d", " ", "s", "e", "a",
                 "r", "c", "h", " ", "a", "r", "g", "u", "m", "e", "n",
                 "t", "s">>)>>)

IsDict(arguments) == arguments.type = "dict"

HasKey(arguments, key) == key \in DOMAIN arguments.items

\* Mutant: the arguments are checked before the name.
CallToolCheckArgumentsFirst(name, arguments) ==
    IF ~IsDict(arguments) \/ ~HasKey(arguments, "query")
    THEN InvalidArgumentsError
    ELSE IF name # ToolName THEN UnknownToolError(name) ELSE NoError

\* Mutant: the test for the key query is missing.
CallToolCheckNoKeyTest(name, arguments) ==
    IF name # ToolName THEN UnknownToolError(name)
    ELSE IF ~IsDict(arguments) THEN InvalidArgumentsError ELSE NoError

\* The two guards of call_tool, in order; NoError when both pass.
CallToolCheck(name, arguments) ==
    IF name # ToolName THEN UnknownToolError(name)
    ELSE IF ~IsDict(arguments) \/ ~HasKey(arguments, "query")
         THEN InvalidArgumentsError
         ELSE NoError

\* arguments["query"]: the value, or KeyError.
GetQuery(arguments) ==
    IF HasKey(arguments, "query")
    THEN [ok |-> TRUE, v |-> arguments.items.query, exc |-> NoError]
    ELSE [ok |-> FALSE, v |-> <<>>,
          exc |-> Exc("KeyError", <<StrV(<<"q", "u", "e", "r", "y">>)>>)]

\* arguments.get("max_results", 15)
GetMaxResults(arguments) ==
    IF HasKey(arguments, "max_results") THEN arguments.items.max_results
    ELSE IntV(DefaultMaxResults)

\* Truncation of a float given in tenths, towards zero.
Trunc(tenths) ==
    IF tenths >= 0 THEN tenths \div 10 ELSE 0 - ((0 - tenths) \div 10)

\* The name of the type of a JSON value int() rejects, as text.
StrTypeName(t) ==
    CASE t = "NoneType" -> <<"N", "o", "n", "e", "T", "y", "p", "e">>
      [] t = "list" -> <<"l", "i", "s", "t">>
      [] t = "dict" -> <<"d", "i", "c", "t">>

Raised(type, text) ==
    [ok |-> FALSE, v |-> 0, exc |-> Exc(type, <<StrV(text)>>)]

Converted(n) == [ok |-> TRUE, v |-> n, exc |-> NoError]

\* sys.get_int_max_str_digits(), the most digits int(str) converts.
MaxStrDigits == 4300

\* The first n characters of repr(s).
ReprPrefix(s, n) ==
    Truncate(<<Quote(s)>>
                 \o Concat([k \in 1..Min(Len(s), n) |->
                               ReprChar(s[k], Quote(s))])
                 \o <<Quote(s)>>,
             n)

\* The digits and underscores int() scans after the whitespace and the sign,
\* up to the first other character.
DigitRun(s) ==
    LET body == Unsigned(LStrip(s))
        inRun(k) == body[k] \in DigitSet \cup {"_"}
    IN IF \A k \in 1..Len(body) : inRun(k) THEN body
       ELSE SubSeq(body, 1,
                   (CHOOSE k \in 1..Len(body) :
                       /\ ~inRun(k)
                       /\ \A j \in 1..(k - 1) : inRun(j)) - 1)

\* The digits int() counted when it stops at the limit: those of a
\* well-grouped run, whatever follows the run.
OverLimit(s) ==
    /\ IsDigitGroups(DigitRun(s))
    /\ Len(SelectSeq(DigitRun(s), LAMBDA c : c # "_")) > MaxStrDigits

\* int(s) of a str: the integer, or the ValueError int raises: for a run of
\* more than 4300 digits the one of the limit, for any other text that is no
\* literal the one that names the first 200 characters of repr(s).
ParseInt(s) ==
    IF OverLimit(s)
    THEN Raised("ValueError",
                <<"E", "x", "c", "e", "e", "d", "s", " ", "t", "h", "e", " ",
                  "l", "i", "m", "i", "t", " ", "(", "4", "3", "0", "0", " ",
                  "d", "i", "g", "i", "t", "s", ")", " ", "f", "o", "r", " ",
                  "i", "n", "t", "e", "g", "e", "r", " ", "s", "t", "r", "i",
                  "n", "g", " ", "c", "o", "n", "v", "e", "r", "s", "i", "o",
                  "n", ":", " ", "v", "a", "l", "u", "e", " ", "h", "a", "s",
                  " ">>
                    \o IntText(Len(SelectSeq(DigitRun(s),
                                             LAMBDA c : c # "_")))
                    \o <<" ", "d", "i", "g", "i", "t", "s", ";", " ", "u",
                         "s", "e", " ", "s", "y", "s", ".", "s", "e", "t",
                         "_", "i", "n", "t", "_", "m", "a", "x", "_", "s",
                         "t", "r", "_", "d", "i", "g", "i", "t", "s", "(",
                         ")", " ", "t", "o", " ", "i", "n", "c", "r", "e",
                         "a", "s", "e", " ", "t", "h", "e", " ", "l", "i",
                         "m", "i", "t">>)
    ELSE IF ~IsIntLiteral(s)
    THEN Raised("ValueError",
                <<"i", "n", "v", "a", "l", "i", "d", " ", "l", "i", "t", "e",
                  "r", "a", "l", " ", "f", "o", "r", " ", "i", "n", "t", "(",
                  ")", " ", "w", "i", "t", "h", " ", "b", "a", "s", "e", " ",
                  "1", "0", ":", " ">>
                    \o ReprPrefix(s, 200))
    ELSE Converted(IF Strip(s)[1] = "-"
                   THEN 0 - DigitsValue(LiteralDigits(s))
                   ELSE DigitsValue(LiteralDigits(s)))

\* int(v): the integer, or the exception int raises.
ToInt(v) ==
    CASE v.t = "int" -> Converted(v.v)
      [] v.t = "bool" -> Converted(IF v.b THEN 1 ELSE 0)
      [] v.t = "float" ->
            IF v.kind = "inf"
            THEN Raised("OverflowError",
                        <<"c", "a", "n", "n", "o", "t", " ", "c", "o", "n",
                          "v", "e", "r", "t", " ", "f", "l", "o", "a", "t",
                          " ", "i", "n", "f", "i", "n", "i", "t", "y", " ",
                          "t", "o", " ", "i", "n", "t", "e", "g", "e", "r">>)
            ELSE IF v.kind = "nan"
            THEN Raised("ValueError",
                        <<"c", "a", "n", "n", "o", "t", " ", "c", "o", "n",
                          "v", "e", "r", "t", " ", "f", "l", "o", "a", "t",
                          " ", "N", "a", "N", " ", "t", "o", " ", "i", "n",
                          "t", "e", "g", "e", "r">>)
            ELSE Converted(Trunc(v.tenths))
      [] v.t = "str" -> ParseInt(v.s)
      [] v.t \in {"NoneType", "list", "dict"} ->
            Raised("TypeError",
                   <<"i", "n", "t", "(", ")", " ", "a", "r", "g", "u", "m",
                     "e", "n", "t", " ", "m", "u", "s", "t", " ", "b", "e",
                     " ", "a", " ", "s", "t", "r", "i", "n", "g", ",", " ",
                     "a", " ", "b", "y", "t", "e", "s", "-", "l", "i", "k",
                     "e", " ", "o", "b", "j", "e", "c", "t", " ", "o", "r",
                     " ", "a", " ", "r", "e", "a", "l", " ", "n", "u", "m",
                     "b", "e", "r", ",", " ", "n", "o", "t", " ">>
                       \o <<"'">> \o StrTypeName(v.t) \o <<"'">>)

\* Mutant: the ceiling is not applied.
EffectiveCapUnclamped(n) == n

\* min(int(...), 15)
EffectiveCap(n) == Min(n, MaxResultsCeiling)

(***************************************************************************)
(* PubMedSearcher.search: the three outcomes.                              *)
(***************************************************************************)
\* Mutant: the message leaves the query out.
NoResultsMessageBare(query) ==
    <<"N", "o", " ", "r", "e", "s", "u", "l", "t", "s">>

NoResultsMessage(query) ==
    <<"N", "o", " ", "r", "e", "s", "u", "l", "t", "s", " ",
      "f", "o", "u", "n", "d", " ", "f", "o", "r", " ", "'">> \o query \o <<"'">>

NoResultsOutcome(query) ==
    [status |-> "no_results", query |-> query,
     message |-> NoResultsMessage(query)]

SuccessOutcome(query, results, records) ==
    [status |-> "success", query |-> query,
     total_results |-> ParseInt(results.Count).v,
     showing |-> Len(results.IdList),
     records |-> records]

ErrorOutcome(query, e) ==
    [status |-> "error", query |-> query, message |-> StrOfException(e)]

NoOutcome == [status |-> "none"]

(***************************************************************************)
(* The response envelope.                                                  *)
(***************************************************************************)
KeysOf(outcome) ==
    IF outcome.status = "success"
    THEN <<"status", "query", "total_results", "showing", "records">>
    ELSE <<"status", "query", "message">>

\* json.dumps(results, indent=2): the members of the object, in insertion
\* order, each a key and its value.
Dumps(outcome) ==
    [k \in 1..Len(KeysOf(outcome)) |->
        [key |-> KeysOf(outcome)[k], value |-> outcome[KeysOf(outcome)[k]]]]

\* json.loads(text)[key]
Loads(text, key) ==
    text[CHOOSE k \in 1..Len(text) : text[k].key = key].value

HasMember(text, key) == \E k \in 1..Len(text) : text[k].key = key

\* [TextContent(type="text", text=...)]
Envelope(outcome) == <<[type |-> "text", text |-> Dumps(outcome)]>>

(***************************************************************************)
(* State.  inv[i] holds the locals of invocation i of call_tool and of the *)
(* search it awaits, the calls it made on Entrez, and the handles it       *)
(* opened and closed.  openHandles counts the handles of the process that  *)
(* are open; served counts the requests answered so far.                   *)
(***************************************************************************)
Call(op, term, retmax, id) ==
    [op |-> op, db |-> "pubmed", term |-> term, retmax |-> retmax, id |-> id]

IdleInv ==
    [pc |-> "idle", name |-> <<>>, arguments |-> [type |-> "NoneType"],
     query |-> <<>>, max_results |-> 0, searched |-> FALSE,
     results |-> NoReply, ids |-> <<>>, records |-> <<>>,
     outcome |-> NoOutcome, response |-> <<>>, error |-> NoError,
     calls |-> <<>>, nOpened |-> 0, nClosed |-> 0, overlapped |-> FALSE]

Invocations == DOMAIN inv

\* Invocation j is between its esearch call and the return of its search.
Running(j) == inv[j].pc \in {"read1", "close1", "efetch", "read2", "close2"}

Overlaps(i) == \E j \in Invocations \ {i} : Running(j)

Last(seq) == seq[Len(seq)]

Init ==
    /\ inv = [i \in 1..1 |-> IdleInv]
    /\ openHandles = 0
    /\ served = 0

ConcInit ==
    /\ inv = [i \in 1..MaxInFlight |-> IdleInv]
    /\ openHandles = 0
    /\ served = 0

(***************************************************************************)
(* call_tool, lines 117-134: the guards, the arguments, and the call of    *)
(* search up to its first network operation.                               *)
(***************************************************************************)
CallTool(i, name, arguments) ==
    /\ inv[i].pc = "idle"
    /\ LET err == CallToolCheck(name, arguments)
           got == [inv[i] EXCEPT !.name = name, !.arguments = arguments]
       IN IF err # NoError
          THEN inv' = [inv EXCEPT ![i] =
                          [got EXCEPT !.pc = "failed", !.error = err]]
          ELSE LET q == GetQuery(arguments)
                   n == ToInt(GetMaxResults(arguments))
               IN IF ~q.ok
                  THEN inv' = [inv EXCEPT ![i] =
                                  [got EXCEPT !.pc = "failed", !.error = q.exc]]
                  ELSE IF ~n.ok
                  THEN inv' = [inv EXCEPT ![i] =
                                  [got EXCEPT !.pc = "failed", !.error = n.exc]]
                  ELSE inv' = [inv EXCEPT ![i] =
                                  [got EXCEPT !.pc = "esearch",
                                              !.query = q.v,
                                              !.max_results = EffectiveCap(n.v),
                                              !.searched = TRUE]]
    /\ UNCHANGED <<openHandles, served>>

(***************************************************************************)
(* search, lines 79-85: the except clause.                                 *)
(***************************************************************************)
\* Mutant: search has no except clause; the exception reaches call_tool,
\* which raises RuntimeError (lines 143-145).
ExceptPropagates(i, e, calls, finalized) ==
    /\ inv' = [inv EXCEPT
                  ![i].pc = "failed",
                  ![i].calls = calls,
                  ![i].nClosed = IF finalized THEN @ + 1 ELSE @,
                  ![i].error =
                      Exc("RuntimeError",
                          <<StrV(<<"P", "u", "b", "M", "e", "d", " ",
                                       "s", "e", "a", "r", "c", "h", " ",
                                       "e", "r", "r", "o", "r", ":", " ">>
                                     \o StrOfException(e))>>)]
    /\ openHandles' = IF finalized THEN openHandles - 1 ELSE openHandles

\* The clause returns the error outcome and calls no close().  A handle the
\* try block left open is referenced by the local handle alone: when the
\* frame of search is released the runtime finalizes it at once (finalized),
\* as reference counting does for a handle with a finalizer, or leaves it
\* open for a later collection.
Except(i, e, calls, finalized) ==
    /\ inv' = [inv EXCEPT
                  ![i].pc = "returned",
                  ![i].calls = calls,
                  ![i].nClosed = IF finalized THEN @ + 1 ELSE @,
                  ![i].outcome = ErrorOutcome(inv[i].query, e)]
    /\ openHandles' = IF finalized THEN openHandles - 1 ELSE openHandles

(***************************************************************************)
(* search, line 55: Entrez.esearch opens a handle, or raises.              *)
(***************************************************************************)
ESearchCall(i) == Call("esearch", inv[i].query, inv[i].max_results, <<>>)

ESearch(i) ==
    /\ inv[i].pc = "esearch"
    /\ inv' = [inv EXCEPT ![i].pc = "read1",
                          ![i].calls = Append(@, ESearchCall(i)),
                          ![i].nOpened = @ + 1]
    /\ openHandles' = openHandles + 1
    /\ UNCHANGED served

ESearchFails(i, e) ==
    /\ inv[i].pc = "esearch"
    /\ Except(i, e, Append(inv[i].calls, ESearchCall(i)), FALSE)
    /\ UNCHANGED served

(***************************************************************************)
(* search, line 56: Entrez.read(handle) parses the reply, or raises.       *)
(***************************************************************************)
Read(i, reply) ==
    /\ inv[i].pc = "read1"
    /\ inv' = [inv EXCEPT ![i].pc = "close1",
                          ![i].results = reply,
                          ![i].overlapped = @ \/ Overlaps(i)]
    /\ UNCHANGED <<openHandles, served>>

ReadFails(i, e) ==
    /\ inv[i].pc = "read1"
    /\ \E finalized \in BOOLEAN : Except(i, e, inv[i].calls, finalized)
    /\ UNCHANGED served

(***************************************************************************)
(* search, lines 57-66: close the handle; return no_results for an empty   *)
(* IdList, else join the identifiers.                                      *)
(***************************************************************************)
CloseSearch(i) ==
    /\ inv[i].pc = "close1"
    /\ IF Len(inv[i].results.IdList) = 0
       THEN inv' = [inv EXCEPT ![i].pc = "returned",
                               ![i].nClosed = @ + 1,
                               ![i].outcome = NoResultsOutcome(inv[i].query)]
       ELSE inv' = [inv EXCEPT ![i].pc = "efetch",
                               ![i].nClosed = @ + 1,
                               ![i].ids = Join(inv[i].results.IdList, <<",">>)]
    /\ openHandles' = openHandles - 1
    /\ UNCHANGED served

(***************************************************************************)
(* search, line 67: Entrez.efetch opens a handle, or raises.               *)
(***************************************************************************)
\* Mutant: the joined identifiers live in one buffer of the searcher, which
\* holds what the first invocation that joined its identifiers left there.
EFetchCallSharedIds(i) ==
    Call("efetch", <<>>, 0,
         inv[CHOOSE j \in Invocations :
                /\ inv[j].ids # <<>>
                /\ \A k \in Invocations : inv[k].ids # <<>> => j <= k].ids)

EFetchCall(i) == Call("efetch", <<>>, 0, inv[i].ids)

EFetch(i) ==
    /\ inv[i].pc = "efetch"
    /\ inv' = [inv EXCEPT ![i].pc = "read2",
                          ![i].calls = Append(@, EFetchCall(i)),
                          ![i].nOpened = @ + 1,
                          ![i].overlapped = @ \/ Overlaps(i)]
    /\ openHandles' = openHandles + 1
    /\ UNCHANGED served

EFetchFails(i, e) ==
    /\ inv[i].pc = "efetch"
    /\ Except(i, e, Append(inv[i].calls, EFetchCall(i)), FALSE)
    /\ UNCHANGED served

(***************************************************************************)
(* search, line 68: handle.read() returns the records, or raises.          *)
(***************************************************************************)
ReadRecords(i) ==
    /\ inv[i].pc = "read2"
    /\ inv' = [inv EXCEPT ![i].pc = "close2",
                          ![i].records = EFetchReply(Last(inv[i].calls).id),
                          ![i].overlapped = @ \/ Overlaps(i)]
    /\ UNCHANGED <<openHandles, served>>

ReadRecordsFails(i, e) ==
    /\ inv[i].pc = "read2"
    /\ \E finalized \in BOOLEAN : Except(i, e, inv[i].calls, finalized)
    /\ UNCHANGED served

(***************************************************************************)
(* search, lines 69-77: close the handle and return success; a Count that  *)
(* int() rejects raises into the except clause.                            *)
(***************************************************************************)
CloseFetch(i) ==
    /\ inv[i].pc = "close2"
    /\ inv' = [inv EXCEPT ![i].pc = "returned",
                          ![i].nClosed = @ + 1,
                          ![i].outcome =
                              IF ParseInt(inv[i].results.Count).ok
                              THEN SuccessOutcome(inv[i].query,
                                                  inv[i].results,
                                                  inv[i].records)
                              ELSE ErrorOutcome(
                                       inv[i].query,
                                       ParseInt(inv[i].results.Count).exc)]
    /\ openHandles' = openHandles - 1
    /\ UNCHANGED served

(***************************************************************************)
(* call_tool, lines 135-142: serialize the outcome into the envelope.      *)
(***************************************************************************)
Respond(i) ==
    /\ inv[i].pc = "returned"
    /\ inv' = [inv EXCEPT ![i].pc = "done",
                          ![i].response = Envelope(inv[i].outcome)]
    /\ UNCHANGED <<openHandles, served>>

(***************************************************************************)
(* The host sends the next request once the last one was answered or       *)
(* failed: the locals of the finished invocation are gone, the handles of  *)
(* the process remain as they are.                                         *)
(***************************************************************************)
NextRequest(i) ==
    /\ inv[i].pc \in {"done", "failed"}
    /\ served < MaxRequests
    /\ inv' = [inv EXCEPT ![i] = IdleInv]
    /\ served' = served + 1
    /\ UNCHANGED openHandles

(***************************************************************************)
(* The runtime collects a handle that a returned search left open.         *)
(***************************************************************************)
\* Handles search left open when it returned to invocation i.
Leaked(i) ==
    IF inv[i].pc \in {"returned", "done"}
    THEN inv[i].nOpened - inv[i].nClosed ELSE 0

\* Handles invocation i holds in its local handle, inside search.
Held(i) ==
    IF inv[i].pc \in {"read1", "close1", "read2", "close2"} THEN 1 ELSE 0

RECURSIVE Accounted(_)
Accounted(n) ==
    IF n = 0 THEN 0 ELSE Leaked(n) + Held(n) + Accounted(n - 1)

\* Handles left open by requests whose invocation is over.
PastLeaks == openHandles - Accounted(Len(inv))

Collect(i) ==
    /\ Leaked(i) > 0
    /\ inv' = [inv EXCEPT ![i].nClosed = @ + 1]
    /\ openHandles' = openHandles - 1
    /\ UNCHANGED served

CollectPast ==
    /\ PastLeaks > 0
    /\ openHandles' = openHandles - 1
    /\ UNCHANGED <<inv, served>>

(***************************************************************************)
(* Spec: the server as the source runs it.  The Entrez calls block, so a   *)
(* call_tool runs from its first line to its return without another        *)
(* starting: one invocation at a time, any number one after the other.     *)
(***************************************************************************)
Next ==
    \/ \E i \in Invocations, name \in Names, arguments \in Arguments :
           CallTool(i, name, arguments)
    \/ \E i \in Invocations : ESearch(i)
    \/ \E i \in Invocations, e \in NetworkErrors : ESearchFails(i, e)
    \/ \E i \in Invocations :
           /\ inv[i].pc = "read1"
           /\ \E reply \in ESearchReplies(Last(inv[i].calls).term,
                                          Last(inv[i].calls).retmax) :
                  Read(i, reply)
    \/ \E i \in Invocations, e \in NetworkErrors : ReadFails(i, e)
    \/ \E i \in Invocations : CloseSearch(i)
    \/ \E i \in Invocations : EFetch(i)
    \/ \E i \in Invocations, e \in NetworkErrors : EFetchFails(i, e)
    \/ \E i \in Invocations : ReadRecords(i)
    \/ \E i \in Invocations, e \in NetworkErrors : ReadRecordsFails(i, e)
    \/ \E i \in Invocations : CloseFetch(i)
    \/ \E i \in Invocations : Respond(i)
    \/ \E i \in Invocations : NextRequest(i)
    \/ \E i \in Invocations : Collect(i)
    \/ CollectPast

Spec == Init /\ [][Next]_vars

(***************************************************************************)
(* ConcSpec: MaxInFlight invocations whose steps interleave at every       *)
(* network operation of search.  It allows every schedule of Spec and      *)
(* those of a host that switches invocations at the network operations.    *)
(***************************************************************************)
ConcNext ==
    \/ \E i \in Invocations, name \in ConcNames, arguments \in ConcArguments :
           CallTool(i, name, arguments)
    \/ \E i \in Invocations : ESearch(i)
    \/ \E i \in Invocations, e \in ConcNetworkErrors : ESearchFails(i, e)
    \/ \E i \in Invocations :
           /\ inv[i].pc = "read1"
           /\ \E reply \in ConcESearchReplies(Last(inv[i].calls).term,
                                              Last(inv[i].calls).retmax) :
                  Read(i, reply)
    \/ \E i \in Invocations, e \in ConcNetworkErrors : ReadFails(i, e)
    \/ \E i \in Invocations : CloseSearch(i)
    \/ \E i \in Invocations : EFetch(i)
    \/ \E i \in Invocations, e \in ConcNetworkErrors : EFetchFails(i, e)
    \/ \E i \in Invocations : ReadRecords(i)
    \/ \E i \in Invocations, e \in ConcNetworkErrors : ReadRecordsFails(i, e)
    \/ \E i \in Invocations : CloseFetch(i)
    \/ \E i \in Invocations : Respond(i)
    \/ \E i \in Invocations : Collect(i)

ConcSpec == ConcInit /\ [][ConcNext]_vars

(***************************************************************************)
(* Properties.                                                             *)
(***************************************************************************)
Started(i) == inv[i].pc # "idle"

Ended(i) == inv[i].pc \in {"done", "failed"}

\* search has returned to call_tool.
Returned(i) == inv[i].pc \in {"returned", "done"}

ValidRequest(i) ==
    /\ Started(i)
    /\ inv[i].name = ToolName
    /\ IsDict(inv[i].arguments)
    /\ HasKey(inv[i].arguments, "query")

HasMaxResults(i) == HasKey(inv[i].arguments, "max_results")

Requested(i) == inv[i].arguments.items.max_results

\* The calls of invocation i on Entrez with the given operation.
CallsOf(i, op) == SelectSeq(inv[i].calls, LAMBDA c : c.op = op)

\* C1: whenever call_tool calls search for a request naming pubmed_search
\* with a query, the max_results passed equals the requested max_results when
\* that is an integer in 1..15, and is 15 when the requested max_results is
\* greater than 15 or absent; the esearch request carries that value.
C1_EffectiveCap ==
    \A i \in Invocations :
        inv[i].searched =>
            /\ ValidRequest(i)
            /\ ~HasMaxResults(i) => inv[i].max_results = 15
            /\ (HasMaxResults(i) /\ Requested(i).t = "int"
                    /\ Requested(i).v \in 1..15)
                 => inv[i].max_results = Requested(i).v
            /\ (HasMaxResults(i) /\ Requested(i).t = "int"
                    /\ Requested(i).v > 15)
                 => inv[i].max_results = 15
            /\ (HasMaxResults(i) /\ Requested(i).t = "float"
                    /\ Requested(i).kind = "finite"
                    /\ Requested(i).tenths > 150)
                 => inv[i].max_results = 15
            /\ \A k \in 1..Len(CallsOf(i, "esearch")) :
                   CallsOf(i, "esearch")[k].retmax = inv[i].max_results

\* A request for 9000 results was searched with a cap of 15.
C1_Witness ==
    \E i \in Invocations :
        /\ inv[i].pc = "done"
        /\ HasMaxResults(i)
        /\ Requested(i) = IntV(9000)
        /\ Len(CallsOf(i, "esearch")) = 1
        /\ CallsOf(i, "esearch")[1].retmax = 15

\* C2: an invocation naming any tool other than pubmed_search fails with
\* the unknown-tool error whatever its arguments are, and makes no call of
\* search, no identifier search and no record fetch.
C2_UnknownTool ==
    \A i \in Invocations :
        (Started(i) /\ inv[i].name # ToolName) =>
            /\ inv[i].pc = "failed"
            /\ inv[i].error = UnknownToolError(inv[i].name)
            /\ ~inv[i].searched
            /\ inv[i].calls = <<>>
            /\ inv[i].nOpened = 0

\* An unknown tool was named with arguments that pubmed_search accepts.
C2_Witness ==
    \E i \in Invocations :
        /\ inv[i].pc = "failed"
        /\ inv[i].name = OtherName
        /\ inv[i].arguments = DictV([query |-> QFew, max_results |-> IntV(2)])
        /\ inv[i].error = UnknownToolError(OtherName)

\* C3: an invocation naming pubmed_search whose arguments are not a mapping,
\* or are a mapping without the key query, fails with the invalid-arguments
\* error and makes no call of search.
C3_InvalidArguments ==
    \A i \in Invocations :
        (/\ Started(i)
         /\ inv[i].name = ToolName
         /\ (~IsDict(inv[i].arguments) \/ ~HasKey(inv[i].arguments, "query")))
            =>
            /\ inv[i].pc = "failed"
            /\ inv[i].error = InvalidArgumentsError
            /\ ~inv[i].searched
            /\ inv[i].calls = <<>>

\* pubmed_search was called with a mapping that has max_results but no query.
C3_Witness ==
    \E i \in Invocations :
        /\ inv[i].pc = "failed"
        /\ inv[i].name = ToolName
        /\ inv[i].arguments = DictV([max_results |-> IntV(2)])
        /\ inv[i].error = InvalidArgumentsError

\* C4: when the database fails during the identifier search or the record
\* fetch, search returns an error outcome whose query is the input query and
\* whose message is non-empty, and no exception reaches the caller of search.
C4_ErrorOutcome ==
    \A i \in Invocations :
        /\ (inv[i].searched /\ Ended(i)) => inv[i].pc = "done"
        /\ (Returned(i) /\ inv[i].outcome.status = "error") =>
               /\ inv[i].outcome.query = inv[i].arguments.items.query
               /\ inv[i].outcome.message # <<>>

\* The response is one text block holding the serialized outcome.
WellFormed(i) ==
    /\ Len(inv[i].response) = 1
    /\ inv[i].response[1].type = "text"
    /\ HasMember(inv[i].response[1].text, "status")
    /\ Loads(inv[i].response[1].text, "status")
           \in {"success", "no_results", "error"}
    /\ Loads(inv[i].response[1].text, "status") = inv[i].outcome.status
    /\ Loads(inv[i].response[1].text, "query") = inv[i].arguments.items.query

\* int() accepts the value: an integer, a boolean, a finite float, or a
\* string that int() reads as an integer literal of at most 4300 digits.
Coercible(v) ==
    \/ v.t \in {"int", "bool"}
    \/ v.t = "float" /\ v.kind = "finite"
    \/ /\ v.t = "str"
       /\ IsIntLiteral(v.s)
       /\ Len(LiteralDigits(v.s)) <= MaxStrDigits

\* C5 as claimed: every invocation naming pubmed_search with a mapping that
\* contains query ends with a response of exactly one text block whose
\* outcome has status success, no_results or error, never in a failure.
C5_Original ==
    \A i \in Invocations :
        (ValidRequest(i) /\ Ended(i)) => (inv[i].pc = "done" /\ WellFormed(i))

\* C5 as amended: every invocation naming pubmed_search with a mapping that
\* contains query, and whose max_results, when present, is a value int()
\* accepts (an integer, a boolean, a finite float, or a string that int()
\* reads as an integer literal), ends with a response of exactly one
\* text block whose outcome has status success, no_results or error, never
\* in a failure.
C5_Amended ==
    \A i \in Invocations :
        (/\ ValidRequest(i)
         /\ Ended(i)
         /\ HasMaxResults(i) => Coercible(Requested(i)))
            => (inv[i].pc = "done" /\ WellFormed(i))

\* A request whose search failed in the network layer was answered with an
\* error outcome in a text block.
C5_Witness ==
    \E i \in Invocations :
        /\ inv[i].pc = "done"
        /\ ValidRequest(i)
        /\ HasMaxResults(i)
        /\ Requested(i) = StrV(<<"2">>)
        /\ WellFormed(i)
        /\ inv[i].outcome.status = "error"

\* The identifiers named in the efetch request of invocation i.
FetchedIds(i) == Split(CallsOf(i, "efetch")[1].id, ",")

\* C6: every success outcome has showing <= total_results and showing <= the
\* cap passed to search, and showing is the number of identifiers whose
\* records were fetched.
C6_Counts ==
    \A i \in Invocations :
        (Returned(i) /\ inv[i].outcome.status = "success") =>
            /\ inv[i].outcome.showing <= inv[i].outcome.total_results
            /\ inv[i].outcome.showing <= inv[i].max_results
            /\ Len(CallsOf(i, "efetch")) = 1
            /\ inv[i].outcome.showing = Len(FetchedIds(i))

\* What search itself establishes of a success outcome: showing is the
\* number of identifiers the reply held, the efetch request names those
\* identifiers, and total_results is the count of the reply.
ShowingIsFetched ==
    \A i \in Invocations :
        (Returned(i) /\ inv[i].outcome.status = "success") =>
            /\ Len(CallsOf(i, "efetch")) = 1
            /\ FetchedIds(i) = inv[i].results.IdList
            /\ inv[i].outcome.showing = Len(FetchedIds(i))
            /\ inv[i].outcome.total_results = ParseInt(inv[i].results.Count).v

\* The identifier search of invocation i was read and held no identifier.
ZeroIdentifiers(i) ==
    /\ inv[i].results # NoReply
    /\ Len(inv[i].results.IdList) = 0

\* C7: when the identifier search returns zero identifiers, search returns
\* a no_results outcome whose query is the input query and whose message is
\* non-empty and contains the query, and no record fetch is issued.
C7_NoResults ==
    \A i \in Invocations :
        /\ (ZeroIdentifiers(i) /\ inv[i].pc # "close1") =>
               /\ Returned(i)
               /\ inv[i].outcome.status = "no_results"
               /\ Len(CallsOf(i, "efetch")) = 0
        /\ (Returned(i) /\ inv[i].outcome.status = "no_results") =>
               /\ ZeroIdentifiers(i)
               /\ inv[i].outcome.query = inv[i].arguments.items.query
               /\ inv[i].outcome.message # <<>>
               /\ Contains(inv[i].outcome.message, inv[i].outcome.query)

\* A search for a term without matches returned no_results.
C7_Witness ==
    \E i \in Invocations :
        /\ inv[i].pc = "done"
        /\ inv[i].arguments.items.query = QNone
        /\ inv[i].outcome.status = "no_results"
        /\ Loads(inv[i].response[1].text, "message") = NoResultsMessage(QNone)

\* What the database answers to the request of invocation i alone.
OwnCap(i) == Min(ToInt(GetMaxResults(inv[i].arguments)).v, 15)

OwnReply(i) == ESearchReply(inv[i].arguments.items.query, OwnCap(i))

OwnRecords(i) ==
    Concat([k \in 1..Len(OwnReply(i).IdList) |->
               MedlineRecord(OwnReply(i).IdList[k])])

\* C8: with invocations interleaved at the network operations of search,
\* every response echoes the query of its own request, is computed with its
\* own effective cap, and carries the records of exactly the identifiers
\* its own identifier search returned.
C8_Independent ==
    \A i \in Invocations :
        inv[i].pc = "done" =>
            /\ Loads(inv[i].response[1].text, "query")
                   = inv[i].arguments.items.query
            /\ CallsOf(i, "esearch")[1].term = inv[i].arguments.items.query
            /\ CallsOf(i, "esearch")[1].retmax = OwnCap(i)
            /\ Len(inv[i].calls) = 2 =>
                   /\ inv[i].results = OwnReply(i)
                   /\ FetchedIds(i) = OwnReply(i).IdList
            /\ inv[i].outcome.status = "no_results" =>
                   Len(OwnReply(i).IdList) = 0
            /\ inv[i].outcome.status = "success" =>
                   /\ Loads(inv[i].response[1].text, "records") = OwnRecords(i)
                   /\ Loads(inv[i].response[1].text, "showing")
                          = Len(OwnReply(i).IdList)
                   /\ Loads(inv[i].response[1].text, "total_results")
                          = Matches(inv[i].arguments.items.query)

\* Two invocations with different caps, each taking network steps while the
\* other was inside search, both answered.
C8_Witness ==
    \E i, j \in Invocations :
        /\ i # j
        /\ inv[i].pc = "done" /\ inv[j].pc = "done"
        /\ inv[i].overlapped /\ inv[j].overlapped
        /\ inv[i].outcome.status = "success"
        /\ inv[j].outcome.status = "success"
        /\ inv[i].outcome.showing = 1
        /\ inv[j].outcome.showing = 3

\* C9: whenever call_tool calls search, the max_results passed is a positive
\* integer not exceeding 15.
C9_PositiveCap ==
    \A i \in Invocations :
        inv[i].searched => inv[i].max_results \in 1..15

\* C10: when search has returned, with any outcome, every handle it opened
\* has been closed; with no search in progress no handle is open.
C10_HandlesClosed ==
    /\ \A i \in Invocations :
           Returned(i) => inv[i].nClosed = inv[i].nOpened
    /\ (\A i \in Invocations : inv[i].pc \in {"idle", "failed", "returned", "done"})
           => openHandles = 0

====
